---- MODULE Spec2Model ----
(***************************************************************************)
(* TensorStreamDataset (src/util/TensorStreamDataset.cpp): the two-pass    *)
(* constructor (count, rewind, materialize, error cache), the sample       *)
(* accessors and CreateFromConfiguration.                                  *)
(*                                                                         *)
(* Two specifications share the variables:                                 *)
(*   Spec        one constructor call followed by accessor calls           *)
(*   SpecConfig  the directive loop of CreateFromConfiguration up to the   *)
(*               constructor call it ends with                             *)
(***************************************************************************)
EXTENDS Integers, Sequences, FiniteSets, TLC

\* ------------------------------------------------------------------ bounds
MaxRecords == 4      \* longest record stream
MaxIndex == 3        \* largest sample index a caller passes
DestSamples == 1     \* samples in the caller's destination tensors
MaxLines == 3        \* longest configuration file

\* ------------------------------------------------------------------ tensors
\* A tensor: its shape and its contents, one value per (x, y) coordinate.
Coords(w, h) == (0 .. w - 1) \X (0 .. h - 1)

\* Contents holding the same value at every coordinate.
ConstCells(w, h, v) == [c \in Coords(w, h) |-> v]

NoCells == [c \in {} |-> 0]

\* A default-constructed Tensor, and what Deserialize leaves when the read fails.
ZeroTensor == [samples |-> 0, width |-> 0, height |-> 0, maps |-> 0, val |-> NoCells]

elements(tensor) == tensor.samples * tensor.width * tensor.height * tensor.maps

\* The two record layouts the streams are drawn from (data record, label record).
DataShape(f) == IF f = 1 THEN [width |-> 2, height |-> 1, maps |-> 1]
                         ELSE [width |-> 1, height |-> 2, maps |-> 2]

LabelShape(f) == IF f = 1 THEN [width |-> 2, height |-> 1, maps |-> 2]
                          ELSE [width |-> 1, height |-> 2, maps |-> 1]

Record(shape, id) ==
  [samples |-> 1, width |-> shape.width, height |-> shape.height,
   maps |-> shape.maps, val |-> ConstCells(shape.width, shape.height, id)]

\* A stream of n records, alternating data and label, every record with its
\* own contents (base + position); record z, if any, has zero elements.
MakeRecords(base, n, z, f) ==
  [i \in 1 .. n |->
     IF i = z THEN ZeroTensor
     ELSE Record(IF i % 2 = 1 THEN DataShape(f) ELSE LabelShape(f), base + i)]

\* Where a stream may hold a zero-element record (0: nowhere).
SentinelPositions == {0, 2, 3}

RecordSeqs(base) ==
  { MakeRecords(base, n, z, f) : n \in 0 .. MaxRecords, z \in SentinelPositions, f \in 1 .. 2 }

\* A freshly opened std::istream over the records: positioned at its start.
OpenStream(recs) == [recs |-> recs, pos |-> 0, eof |-> FALSE]

\* Tensor::Deserialize: the next record, or a zero-element tensor (and eof)
\* when the stream has no more data.
Deserialize(stream) ==
  IF stream.pos < Len(stream.recs)
  THEN [tensor |-> stream.recs[stream.pos + 1],
        stream |-> [stream EXCEPT !.pos = @ + 1]]
  ELSE [tensor |-> ZeroTensor,
        stream |-> [stream EXCEPT !.eof = TRUE]]

\* clear() and seekg(0, beg)
Rewind(stream) == [stream EXCEPT !.pos = 0, !.eof = FALSE]

\* ------------------------------------------------------------------ error functions
DefaultLocalizedErrorFunction(x, y) == 1

KITTILocalizedError(x, y) == 2 + x + 2 * y

ErrorFunctions == {"default", "kitti"}

ApplyErrorFunction(fn, x, y) ==
  IF fn = "kitti" THEN KITTILocalizedError(x, y) ELSE DefaultLocalizedErrorFunction(x, y)

\* ------------------------------------------------------------------ state
VARIABLES
  pc,                       \* position in the constructor / object state
  training_stream, testing_stream,
  error_function,           \* constructor argument
  classes_, class_names_,
  tensor_count_training_, tensor_count_testing_, tensors_,
  allocated,                \* data_ / labels_ point to arrays
  data_, labels_,           \* pool arrays, indexed 0 .. tensors_ - 1
  t,                        \* loop variable of the materialization loops
  input_maps_, label_maps_,
  error_cache,
  pool_access,              \* pool indices the last step accessed
  call,                     \* the last accessor call and what it returned
  cfg_pc,                   \* position in CreateFromConfiguration
  file,                     \* the configuration stream
  line,                     \* the line the directive loop read last
  classes, class_names, cfg_error_function, training_file, testing_file

ctor_vars == <<pc, training_stream, testing_stream, error_function, classes_, class_names_,
               tensor_count_training_, tensor_count_testing_, tensors_, allocated,
               data_, labels_, t, input_maps_, label_maps_, error_cache, pool_access, call>>

cfg_vars == <<cfg_pc, file, line, classes, class_names,
              cfg_error_function, training_file, testing_file>>

vars == <<ctor_vars, cfg_vars>>

\* The pool is fixed once the arrays are filled.
corpus == <<tensor_count_training_, tensor_count_testing_, tensors_, allocated,
            data_, labels_, input_maps_, label_maps_, error_cache,
            classes_, class_names_>>

\* ------------------------------------------------------------------ accessors (pure)
GetTrainingSamples == tensor_count_training_ \div 2

GetTestingSamples == tensor_count_testing_ \div 2

SupportsTesting_Always == tensor_count_testing_ >= 0

SupportsTesting == tensor_count_testing_ > 0

GetInputMaps == input_maps_

GetLabelMaps == label_maps_

GetClasses == classes_

GetClassNames == class_names_

GetTask == "SEMANTIC_SEGMENTATION"

\* ------------------------------------------------------------------ pool arrays
\* new Tensor[n]: n default-constructed tensors, indexed from 0.
NewTensorArray(n) == [i \in 0 .. n - 1 |-> ZeroTensor]

\* What a read past the end of a pool array may find in memory.
GarbageTensors == { ZeroTensor, Record([width |-> 2, height |-> 2, maps |-> 3], 0) }

\* The values a read of array[i] can produce: the element, or, past the end
\* of the array, whatever the memory holds.
PoolReads(array, i) == IF i \in DOMAIN array THEN {array[i]} ELSE GarbageTensors

\* What Resize leaves in cells nobody has written yet.
UninitData == {0, 5}

\* ------------------------------------------------------------------ destination tensors
\* The caller's destination tensors, zeroed before each call.
DestTensor(shape) ==
  [samples |-> DestSamples, width |-> shape.width, height |-> shape.height,
   maps |-> shape.maps, slots |-> [s \in 0 .. DestSamples - 1 |-> NoCells]]

FreshData == DestTensor(DataShape(1))

FreshLabel == DestTensor(LabelShape(1))

FreshWeight == DestTensor([width |-> 2, height |-> 1, maps |-> 1])

\* Tensor::CopySample(source, 0, target, sample): copies sample 0 of the
\* source into slot `sample` of the target when the shapes agree.
CopySample(source, target, sample) ==
  LET ok == /\ source.maps = target.maps
            /\ source.width = target.width
            /\ source.height = target.height
            /\ 0 < source.samples
            /\ sample < target.samples
  IN [ok |-> ok,
      target |-> IF ok THEN [target EXCEPT !.slots[sample] = source.val] ELSE target]

NoCall == [op |-> "none", index |-> 0, sample |-> 0, accepted |-> FALSE, reads |-> {},
           ret |-> FALSE, value |-> 0, copied |-> <<FALSE, FALSE, FALSE>>,
           data_tensor |-> FreshData, label_tensor |-> FreshLabel,
           weight_tensor |-> FreshWeight]

\* ------------------------------------------------------------------ constructor
OddCount_SecondBit(count) == (count \div 2) % 2 = 1

\* The parity test `count & 1`.
OddCount(count) == count % 2 = 1

\* FATAL(...): the constructor does not return.
FATAL == "fatal"

\* Lines 28-36: one iteration of the training count loop.
ScanTraining ==
  /\ pc = "scan_training"
  /\ IF training_stream.eof
     THEN /\ pc' = "check_training"
          /\ UNCHANGED <<training_stream, tensor_count_training_>>
     ELSE LET r == Deserialize(training_stream)
          IN /\ training_stream' = r.stream
             /\ IF elements(r.tensor) = 0
                THEN /\ pc' = "check_training"
                     /\ UNCHANGED tensor_count_training_
                ELSE /\ tensor_count_training_' = tensor_count_training_ + 1
                     /\ pc' = "scan_training"
  /\ pool_access' = {}
  /\ UNCHANGED <<testing_stream, error_function, classes_, class_names_,
                 tensor_count_testing_, tensors_, allocated, data_, labels_, t,
                 input_maps_, label_maps_, error_cache, call, cfg_vars>>

\* Lines 41-43.
CheckTraining ==
  /\ pc = "check_training"
  /\ pc' = IF OddCount(tensor_count_training_) THEN FATAL ELSE "scan_testing"
  /\ pool_access' = {}
  /\ UNCHANGED <<training_stream, testing_stream, error_function, classes_, class_names_,
                 tensor_count_training_, tensor_count_testing_, tensors_, allocated,
                 data_, labels_, t, input_maps_, label_maps_, error_cache, call, cfg_vars>>

\* Lines 45-53: one iteration of the testing count loop.
ScanTesting ==
  /\ pc = "scan_testing"
  /\ IF testing_stream.eof
     THEN /\ pc' = "check_testing"
          /\ UNCHANGED <<testing_stream, tensor_count_testing_>>
     ELSE LET r == Deserialize(testing_stream)
          IN /\ testing_stream' = r.stream
             /\ IF elements(r.tensor) = 0
                THEN /\ pc' = "check_testing"
                     /\ UNCHANGED tensor_count_testing_
                ELSE /\ tensor_count_testing_' = tensor_count_testing_ + 1
                     /\ pc' = "scan_testing"
  /\ pool_access' = {}
  /\ UNCHANGED <<training_stream, error_function, classes_, class_names_,
                 tensor_count_training_, tensors_, allocated, data_, labels_, t,
                 input_maps_, label_maps_, error_cache, call, cfg_vars>>

\* Lines 57-59.
CheckTesting ==
  /\ pc = "check_testing"
  /\ pc' = IF OddCount(tensor_count_testing_) THEN FATAL ELSE "alloc"
  /\ pool_access' = {}
  /\ UNCHANGED <<training_stream, testing_stream, error_function, classes_, class_names_,
                 tensor_count_training_, tensor_count_testing_, tensors_, allocated,
                 data_, labels_, t, input_maps_, label_maps_, error_cache, call, cfg_vars>>

\* Line 61.
PoolSize == (tensor_count_testing_ + tensor_count_training_) \div 2

\* Lines 61-74: size the pool, rewind both streams, allocate the arrays.
Allocate ==
  /\ pc = "alloc"
  /\ tensors_' = PoolSize
  /\ training_stream' = Rewind(training_stream)
  /\ testing_stream' = Rewind(testing_stream)
  /\ data_' = NewTensorArray(PoolSize)
  /\ labels_' = NewTensorArray(PoolSize)
  /\ allocated' = TRUE
  /\ t' = 0
  /\ pc' = "read_training"
  /\ pool_access' = {}
  /\ UNCHANGED <<error_function, classes_, class_names_, tensor_count_training_,
                 tensor_count_testing_, input_maps_, label_maps_, error_cache, call, cfg_vars>>

\* Line 76: the bound of the training loop; line 81: the start of the testing loop.
TrainingLoopEnd == tensor_count_training_ \div 2

TestingLoopStart_NoHalving == tensor_count_training_

TestingLoopStart == tensor_count_training_ \div 2

\* Lines 76-79: one iteration of the training materialization loop.
ReadTraining ==
  /\ pc = "read_training"
  /\ IF t < TrainingLoopEnd
     THEN LET d == Deserialize(training_stream)
              l == Deserialize(d.stream)
          IN /\ data_' = [data_ EXCEPT ![t] = d.tensor]
             /\ labels_' = [labels_ EXCEPT ![t] = l.tensor]
             /\ training_stream' = l.stream
             /\ t' = t + 1
             /\ pc' = "read_training"
             /\ pool_access' = {t}
     ELSE /\ t' = TestingLoopStart
          /\ pc' = "read_testing"
          /\ pool_access' = {}
          /\ UNCHANGED <<data_, labels_, training_stream>>
  /\ UNCHANGED <<testing_stream, error_function, classes_, class_names_,
                 tensor_count_training_, tensor_count_testing_, tensors_, allocated,
                 input_maps_, label_maps_, error_cache, call, cfg_vars>>

\* Lines 81-84: one iteration of the testing materialization loop.
ReadTesting ==
  /\ pc = "read_testing"
  /\ IF t < tensors_
     THEN LET d == Deserialize(testing_stream)
              l == Deserialize(d.stream)
          IN /\ data_' = [data_ EXCEPT ![t] = d.tensor]
             /\ labels_' = [labels_ EXCEPT ![t] = l.tensor]
             /\ testing_stream' = l.stream
             /\ t' = t + 1
             /\ pc' = "read_testing"
             /\ pool_access' = {t}
     ELSE /\ pc' = "maps"
          /\ pool_access' = {}
          /\ UNCHANGED <<data_, labels_, testing_stream, t>>
  /\ UNCHANGED <<training_stream, error_function, classes_, class_names_,
                 tensor_count_training_, tensor_count_testing_, tensors_, allocated,
                 input_maps_, label_maps_, error_cache, call, cfg_vars>>

\* Lines 86-87: data_[0] and labels_[0] are read whatever tensors_ is.
RecordMaps ==
  /\ pc = "maps"
  /\ \E d \in PoolReads(data_, 0), l \in PoolReads(labels_, 0) :
       /\ input_maps_' = d.maps
       /\ label_maps_' = l.maps
  /\ pool_access' = {0}
  /\ pc' = "cache_resize"
  /\ UNCHANGED <<training_stream, testing_stream, error_function, classes_, class_names_,
                 tensor_count_training_, tensor_count_testing_, tensors_, allocated,
                 data_, labels_, t, error_cache, call, cfg_vars>>

\* Line 90: error_cache.Resize(1, data_[0].width(), data_[0].height(), 1).
ResizeErrorCache ==
  /\ pc = "cache_resize"
  /\ \E dw \in PoolReads(data_, 0), dh \in PoolReads(data_, 0), u \in UninitData :
       error_cache' = [samples |-> 1, width |-> dw.width, height |-> dh.height,
                       maps |-> 1, val |-> ConstCells(dw.width, dh.height, u)]
  /\ pool_access' = {0}
  /\ pc' = "cache_fill"
  /\ UNCHANGED <<training_stream, testing_stream, error_function, classes_, class_names_,
                 tensor_count_training_, tensor_count_testing_, tensors_, allocated,
                 data_, labels_, t, input_maps_, label_maps_, call, cfg_vars>>

\* Line 93: the value written to the cell at (x, y).
CacheCell(x, y) == ApplyErrorFunction(error_function, x, y)

\* Lines 91-95: the loops run over data_[0]'s extent and write the cells of
\* the cache they reach.
FillErrorCache ==
  /\ pc = "cache_fill"
  /\ \E d \in PoolReads(data_, 0) :
       error_cache' =
         [error_cache EXCEPT !.val =
            [c \in DOMAIN error_cache.val |->
               IF c[1] < d.width /\ c[2] < d.height
               THEN CacheCell(c[1], c[2])
               ELSE error_cache.val[c]]]
  /\ pool_access' = {0}
  /\ pc' = "constructed"
  /\ UNCHANGED <<training_stream, testing_stream, error_function, classes_, class_names_,
                 tensor_count_training_, tensor_count_testing_, tensors_, allocated,
                 data_, labels_, t, input_maps_, label_maps_, call, cfg_vars>>

\* A read past the end of data_ / labels_ may also end the process
\* (lines 86-95, 105, 109 with an empty pool).
OutOfBoundsCrash ==
  /\ pc \in {"maps", "cache_resize", "cache_fill", "constructed"}
  /\ 0 \notin DOMAIN data_
  /\ pc' = "crashed"
  /\ pool_access' = {0}
  /\ call' = IF pc = "constructed" THEN [NoCall EXCEPT !.op = "crashed"] ELSE call
  /\ UNCHANGED <<training_stream, testing_stream, error_function, classes_, class_names_,
                 tensor_count_training_, tensor_count_testing_, tensors_, allocated,
                 data_, labels_, t, input_maps_, label_maps_, error_cache, cfg_vars>>

\* ------------------------------------------------------------------ sample accessors
TrainingIndexInRange_Inclusive(index) == index <= tensor_count_training_ \div 2

\* Line 141 and line 151: the range guards.
TrainingIndexInRange(index) == index < tensor_count_training_ \div 2

TestingIndexInRange(index) == index < tensor_count_testing_ \div 2

TestIndex_NoOffset(index) == index

\* Line 153.
TestIndex(index) == (tensor_count_training_ \div 2) + index

WeightSource_Data(index) == IF index \in DOMAIN data_ THEN data_[index] ELSE error_cache

\* Lines 145 and 156: the source of the weight copy.
WeightSource(index) == error_cache

\* Lines 142-146 and 152-157: the three copies from pool position `position`;
\* `success &=` does not short-circuit.
CopyFromPool(op, index, sample, position) ==
  \E d \in PoolReads(data_, position), l \in PoolReads(labels_, position) :
    LET c1 == CopySample(d, FreshData, sample)
        c2 == CopySample(l, FreshLabel, sample)
        c3 == CopySample(WeightSource(position), FreshWeight, sample)
    IN /\ call' = [op |-> op, index |-> index, sample |-> sample, accepted |-> TRUE,
                   reads |-> {position}, ret |-> (c1.ok /\ c2.ok /\ c3.ok), value |-> 0,
                   copied |-> <<c1.ok, c2.ok, c3.ok>>,
                   data_tensor |-> c1.target, label_tensor |-> c2.target,
                   weight_tensor |-> c3.target]
       /\ pool_access' = {position}

\* Lines 147 and 158: `else return false`.
RejectIndex(op, index, sample) ==
  /\ call' = [NoCall EXCEPT !.op = op, !.index = index, !.sample = sample]
  /\ pool_access' = {}

\* Lines 140-148.
GetTrainingSample ==
  /\ pc = "constructed"
  /\ \E sample \in 0 .. DestSamples, index \in 0 .. MaxIndex :
       IF TrainingIndexInRange(index)
       THEN CopyFromPool("GetTrainingSample", index, sample, index)
       ELSE RejectIndex("GetTrainingSample", index, sample)
  /\ UNCHANGED <<pc, training_stream, testing_stream, error_function, t, corpus, cfg_vars>>

\* Lines 150-159.
GetTestingSample ==
  /\ pc = "constructed"
  /\ \E sample \in 0 .. DestSamples, index \in 0 .. MaxIndex :
       IF TestingIndexInRange(index)
       THEN CopyFromPool("GetTestingSample", index, sample, TestIndex(index))
       ELSE RejectIndex("GetTestingSample", index, sample)
  /\ UNCHANGED <<pc, training_stream, testing_stream, error_function, t, corpus, cfg_vars>>

\* Lines 104-110: data_[0].width() / data_[0].height().
GetWidth ==
  /\ pc = "constructed"
  /\ \E d \in PoolReads(data_, 0) :
       call' = [NoCall EXCEPT !.op = "GetWidth", !.value = d.width]
  /\ pool_access' = {0}
  /\ UNCHANGED <<pc, training_stream, testing_stream, error_function, t, corpus, cfg_vars>>

GetHeight ==
  /\ pc = "constructed"
  /\ \E d \in PoolReads(data_, 0) :
       call' = [NoCall EXCEPT !.op = "GetHeight", !.value = d.height]
  /\ pool_access' = {0}
  /\ UNCHANGED <<pc, training_stream, testing_stream, error_function, t, corpus, cfg_vars>>

\* Lines 100-102 and 112-138: the accessors that return a member.
Getters ==
  [GetTask |-> <<GetTask>>, GetInputMaps |-> <<GetInputMaps>>,
   GetLabelMaps |-> <<GetLabelMaps>>, GetClasses |-> <<GetClasses>>,
   GetClassNames |-> <<GetClassNames>>, GetTrainingSamples |-> <<GetTrainingSamples>>,
   GetTestingSamples |-> <<GetTestingSamples>>, SupportsTesting |-> <<SupportsTesting>>]

CallGetter ==
  /\ pc = "constructed"
  /\ \E name \in DOMAIN Getters :
       call' = [NoCall EXCEPT !.op = name, !.value = Getters[name][1]]
  /\ pool_access' = {}
  /\ UNCHANGED <<pc, training_stream, testing_stream, error_function, t, corpus, cfg_vars>>

\* ------------------------------------------------------------------ configuration
\* A configuration line: the identifier it starts with and its argument.
Line(id, str, count) == [id |-> id, str |-> str, count |-> count]

EmptyLine == Line("", "", 0)

LineSet ==
  { Line("classes", "", 0), Line("classes", "", 1),
    Line("localized_error", "kitti", 0), Line("localized_error", "default", 0),
    Line("localized_error", "foo", 0),
    Line("training", "a", 0), Line("testing", "b", 0) }

ConfigFiles == UNION { [1 .. n -> LineSet] : n \in 0 .. MaxLines }

\* std::getline: the next line; eof once the last line has been read.
GetLine(f) ==
  IF f.pos < Len(f.lines)
  THEN [line |-> f.lines[f.pos + 1],
        file |-> [f EXCEPT !.pos = @ + 1, !.eof = (f.pos + 1 = Len(f.lines))]]
  ELSE [line |-> EmptyLine, file |-> [f EXCEPT !.eof = TRUE]]

StartsWithIdentifier(l, identifier) == l.id = identifier

ParseCountIfPossible(l, identifier, value) ==
  IF StartsWithIdentifier(l, identifier) THEN l.count ELSE value

ParseStringIfPossible(l, identifier, value) ==
  IF StartsWithIdentifier(l, identifier) THEN l.str ELSE value

\* Lines 177-181: read the class names that follow a `classes` directive.
RECURSIVE ReadClassNames(_, _, _)
ReadClassNames(f, names, c) ==
  IF c = 0 THEN [file |-> f, names |-> names]
  ELSE LET g == GetLine(f)
       IN ReadClassNames(g.file, Append(names, g.line), c - 1)

\* Lines 184-194: the function a line leaves selected.
SelectErrorFunction(l, current) ==
  IF StartsWithIdentifier(l, "localized_error")
  THEN LET error_function_name == ParseStringIfPossible(l, "localized_error", "")
       IN IF error_function_name = "kitti" THEN "kitti"
          ELSE IF error_function_name # "default" THEN "default"
          ELSE current
  ELSE current

\* The files the configuration can name.
FileRecords(name) ==
  IF name = "a" THEN MakeRecords(0, 2, 0, 1)
  ELSE IF name = "b" THEN MakeRecords(10, 2, 0, 1)
  ELSE <<>>

\* Lines 170-198: one iteration of the directive loop.
ConfigLine ==
  /\ cfg_pc = "loop"
  /\ ~file.eof
  /\ LET g == GetLine(file)
         count == ParseCountIfPossible(g.line, "classes", classes)
         r == IF StartsWithIdentifier(g.line, "classes") /\ count # 0
              THEN ReadClassNames(g.file, class_names, count)
              ELSE [file |-> g.file, names |-> class_names]
     IN /\ line' = g.line
        /\ classes' = count
        /\ file' = r.file
        /\ class_names' = r.names
        /\ cfg_error_function' = SelectErrorFunction(g.line, cfg_error_function)
        /\ training_file' = ParseStringIfPossible(g.line, "training", training_file)
        /\ testing_file' = ParseStringIfPossible(g.line, "testing", testing_file)
  /\ UNCHANGED <<cfg_pc, ctor_vars>>

\* Lines 203-207: open the two files and call the constructor.
ConfigConstruct ==
  /\ cfg_pc = "loop"
  /\ file.eof
  /\ cfg_pc' = "constructing"
  /\ pc' = "scan_training"
  /\ training_stream' = OpenStream(FileRecords(training_file))
  /\ testing_stream' = OpenStream(FileRecords(testing_file))
  /\ classes_' = classes
  /\ class_names_' = class_names
  /\ error_function' = cfg_error_function
  /\ UNCHANGED <<tensor_count_training_, tensor_count_testing_, tensors_, allocated,
                 data_, labels_, t, input_maps_, label_maps_, error_cache, pool_access,
                 call, file, line, classes, class_names, cfg_error_function,
                 training_file, testing_file>>

\* ------------------------------------------------------------------ specifications
\* The members before the constructor body runs.
InitMembers ==
  /\ tensor_count_training_ = 0
  /\ tensor_count_testing_ = 0
  /\ tensors_ = 0
  /\ allocated = FALSE
  /\ data_ = NewTensorArray(0)
  /\ labels_ = NewTensorArray(0)
  /\ t = 0
  /\ input_maps_ = 0
  /\ label_maps_ = 0
  /\ error_cache = ZeroTensor
  /\ pool_access = {}
  /\ call = NoCall

\* The locals of CreateFromConfiguration (lines 162-166).
InitLocals ==
  /\ line = EmptyLine
  /\ classes = 0
  /\ class_names = <<>>
  /\ cfg_error_function = "default"
  /\ training_file = ""
  /\ testing_file = ""

ClassArgs == { [classes |-> 0, names |-> <<>>], [classes |-> 1, names |-> <<EmptyLine>>] }

\* A constructor call on two freshly opened streams.
Init ==
  /\ pc = "scan_training"
  /\ training_stream \in { OpenStream(r) : r \in RecordSeqs(0) }
  /\ testing_stream \in { OpenStream(r) : r \in RecordSeqs(10) }
  /\ error_function \in ErrorFunctions
  /\ \E a \in ClassArgs : classes_ = a.classes /\ class_names_ = a.names
  /\ InitMembers
  /\ InitLocals
  /\ cfg_pc = "none"
  /\ file = [lines |-> <<>>, pos |-> 0, eof |-> FALSE]

Next ==
  \/ ScanTraining
  \/ CheckTraining
  \/ ScanTesting
  \/ CheckTesting
  \/ Allocate
  \/ ReadTraining
  \/ ReadTesting
  \/ RecordMaps
  \/ ResizeErrorCache
  \/ FillErrorCache
  \/ OutOfBoundsCrash
  \/ GetTrainingSample
  \/ GetTestingSample
  \/ GetWidth
  \/ GetHeight
  \/ CallGetter

Spec == Init /\ [][Next]_vars

\* CreateFromConfiguration on a configuration file.
InitConfig ==
  /\ cfg_pc = "loop"
  /\ file \in { [lines |-> l, pos |-> 0, eof |-> FALSE] : l \in ConfigFiles }
  /\ InitLocals
  /\ pc = "idle"
  /\ training_stream = OpenStream(<<>>)
  /\ testing_stream = OpenStream(<<>>)
  /\ error_function = "default"
  /\ classes_ = 0
  /\ class_names_ = <<>>
  /\ InitMembers

NextConfig ==
  \/ ConfigLine
  \/ ConfigConstruct

SpecConfig == InitConfig /\ [][NextConfig]_vars

\* ------------------------------------------------------------------ properties
\* The number of valid records of a stream: those before its end and before
\* its first zero-element record.
ValidCount(stream) ==
  LET zero == { i \in 1 .. Len(stream.recs) : elements(stream.recs[i]) = 0 }
  IN IF zero = {} THEN Len(stream.recs)
     ELSE (CHOOSE i \in zero : \A j \in zero : i <= j) - 1

\* The training and testing pair counts the streams hold.
p == ValidCount(training_stream) \div 2

q == ValidCount(testing_stream) \div 2

Odd(n) == n % 2 = 1

Constructing == {"scan_training", "check_training", "scan_testing", "check_testing"}

Replayed == {"maps", "cache_resize", "cache_fill", "constructed", "crashed"}

\* C1: when the training scan or the testing scan counts an odd number of
\* records, the constructor never gets past the parity check: it ends in the
\* fatal state with data_ / labels_ unallocated, nothing materialized and no
\* accessor ever called.
C1_OddCountIsFatal ==
  /\ Odd(ValidCount(training_stream)) =>
        pc \in {"scan_training", "check_training", FATAL}
  /\ Odd(ValidCount(testing_stream)) =>
        pc \in Constructing \cup {FATAL}
  /\ pc \in Constructing \cup {FATAL} =>
        /\ ~allocated
        /\ DOMAIN data_ = {} /\ DOMAIN labels_ = {}
        /\ tensors_ = 0
        /\ call = NoCall
  /\ pc = FATAL =>
        \/ Odd(tensor_count_training_) /\ tensor_count_testing_ = 0
        \/ Odd(tensor_count_testing_)

C1_Witness ==
  /\ pc = FATAL
  /\ tensor_count_training_ = 2
  /\ tensor_count_testing_ = 3

\* C2: for a training stream of 2p valid records and a testing stream of 2q
\* valid records (p, q >= 0, both zero included) construction succeeds and
\* gives GetTrainingSamples() = p, GetTestingSamples() = q, tensors_ = p + q.
C2_EvenCountsConstruct ==
  (~Odd(ValidCount(training_stream)) /\ ~Odd(ValidCount(testing_stream))) =>
     /\ pc \notin {FATAL, "crashed"}
     /\ pc = "constructed" =>
          /\ GetTrainingSamples = p
          /\ GetTestingSamples = q
          /\ tensors_ = p + q

\* C3: GetTrainingSample accepts exactly the indices below p and copies from
\* pool position index; GetTestingSample accepts exactly the indices below q
\* and copies from pool position p + index; neither reads the other partition.
C3_PartitionOrdering ==
  /\ call.op = "GetTrainingSample" =>
        /\ call.accepted <=> call.index < p
        /\ call.reads = IF call.index < p THEN {call.index} ELSE {}
        /\ call.reads \cap (p .. p + q - 1) = {}
        /\ call.copied[1] => call.data_tensor.slots[call.sample] = data_[call.index].val
        /\ call.copied[2] => call.label_tensor.slots[call.sample] = labels_[call.index].val
  /\ call.op = "GetTestingSample" =>
        /\ call.accepted <=> call.index < q
        /\ call.reads = IF call.index < q THEN {p + call.index} ELSE {}
        /\ call.reads \cap (0 .. p - 1) = {}
        /\ call.copied[1] => call.data_tensor.slots[call.sample] = data_[p + call.index].val
        /\ call.copied[2] => call.label_tensor.slots[call.sample] = labels_[p + call.index].val

C3_Witness ==
  /\ call.op = "GetTestingSample"
  /\ p = 2 /\ q = 2
  /\ call.index = 1
  /\ call.reads = {3}
  /\ call.ret

\* C4: GetTrainingSample with index >= p and GetTestingSample with index >= q
\* return false, read no pool element, leave the three destination tensors
\* as they were, and leave the corpus constructed and usable.
C4_OutOfRangeFails ==
  (\/ call.op = "GetTrainingSample" /\ call.index >= p
   \/ call.op = "GetTestingSample" /\ call.index >= q) =>
     /\ call.ret = FALSE
     /\ call.reads = {}
     /\ pool_access = {}
     /\ call.data_tensor = FreshData
     /\ call.label_tensor = FreshLabel
     /\ call.weight_tensor = FreshWeight
     /\ pc = "constructed"
     /\ ENABLED GetTrainingSample

C4_Witness ==
  /\ call.op = "GetTrainingSample"
  /\ p = 1
  /\ call.index = p
  /\ call.sample = 0
  /\ ~call.ret

\* C5: in a constructed corpus SupportsTesting() holds exactly when
\* GetTestingSamples() > 0; with no testing records SupportsTesting() is
\* false and GetTestingSample fails for every index.
C5_SupportsTesting ==
  pc = "constructed" =>
     /\ SupportsTesting <=> GetTestingSamples > 0
     /\ call.op = "SupportsTesting" => (call.value <=> q > 0)
     /\ ValidCount(testing_stream) = 0 =>
          /\ ~SupportsTesting
          /\ call.op = "GetTestingSample" => ~call.ret /\ ~call.accepted

C5_Witness ==
  /\ pc = "constructed"
  /\ ValidCount(testing_stream) = 0
  /\ p = 1
  /\ call.op = "GetTestingSample"
  /\ call.index = 0

\* C6: once constructed, no accessor call changes data_, labels_, the record
\* counts, tensors_ or the error cache, and every weight copy delivers the
\* contents of that same cache, whatever the index and the call.
C6_AccessorsLeaveCorpus ==
  [][pc = "constructed" =>
       /\ corpus' = corpus
       /\ (call'.op \in {"GetTrainingSample", "GetTestingSample"} /\ call'.copied[3]) =>
             call'.weight_tensor.slots[call'.sample] = error_cache.val]_vars

C6_Witness ==
  /\ call.op = "GetTrainingSample"
  /\ call.index = 1
  /\ call.copied[3]
  /\ error_function = "kitti"

\* C7: a `localized_error <name>` directive selects the KITTI function for
\* the name "kitti" and the default function for every other name, whatever
\* was selected before; the constructor gets the function so selected.
C7_LastDirectiveSelects ==
  /\ (cfg_pc = "loop" /\ StartsWithIdentifier(line, "localized_error")) =>
        cfg_error_function = IF line.str = "kitti" THEN "kitti" ELSE "default"
  /\ cfg_pc = "constructing" => error_function = cfg_error_function

C9_ErrorCacheContents ==
  pc = "constructed" =>
     /\ error_cache.samples = 1
     /\ error_cache.maps = 1
     /\ \A d \in PoolReads(data_, 0) :
          /\ error_cache.width = d.width
          /\ error_cache.height = d.height
     /\ DOMAIN error_cache.val = Coords(error_cache.width, error_cache.height)
     /\ \A c \in DOMAIN error_cache.val :
          /\ error_cache.val[c] = ApplyErrorFunction(error_function, c[1], c[2])
          /\ error_function = "default" => error_cache.val[c] = 1

\* C10: every access the constructor, GetWidth and GetHeight make to data_ /
\* labels_ uses an index below tensors_, the empty corpus included.
C10_PoolAccessInBounds ==
  \A i \in pool_access : allocated /\ i < tensors_

====
